---------------------------- MODULE Spec2Model ----------------------------
(***************************************************************************)
(* Advent-of-code 2022, days 01..08 (src/src/bin/NN.rs).  Each day is a    *)
(* pair of functions part_one / part_two over the text of the input; each  *)
(* day is modelled as its own specification (Spec01 .. Spec08) over its    *)
(* own variables, the variables of the other days staying idle.  The       *)
(* parser of day 05, CrateCollection::from_str, has a specification of its *)
(* own (Spec05f).                                                          *)
(*                                                                         *)
(* Conventions                                                             *)
(*   Option<T>   None is <<>>, Some(x) is <<x>>.                           *)
(*   usize       a value is kept as an integer; the result of a wrapping   *)
(*               subtraction below zero is kept as its negative            *)
(*               representative modulo 2^64 (0 - 1 is -1, standing for     *)
(*               usize::MAX), which lies outside every index range.        *)
(*   build       arithmetic overflow panics in a debug build and wraps in  *)
(*               a release build; `build` is chosen in Init by the days    *)
(*               whose arithmetic can overflow (05, 07) and is held at     *)
(*               "release" by the days whose modelled code has none.       *)
(***************************************************************************)
EXTENDS Integers, Sequences, FiniteSets, TLC

VARIABLES
    build,      \* "debug" | "release": whether usize overflow panics or wraps
    \* ---- day 05
    pc05,       \* "run" | "done" | "panic": position in part_one / part_two
    part05,     \* 1 | 2: which of part_one, part_two runs
    crates,     \* CrateCollection: sequence of stacks, each bottom-to-top
    before,     \* the collection as it was when the last command was applied
    command,    \* the last Command handed to (new_)apply_command
    applied,    \* what that call returned: "Ok", "BadFromIndex", ...
    called,     \* whether a command has been applied yet
    answer05,   \* Option<String> returned by part_one / part_two
    \* ---- day 08
    pc08,       \* "parse" | "range" | "view" | "max" | "done" | "panic"
    part08,     \* 1 | 2: which of part_one, part_two runs
    input08,    \* the lines of the input, each a sequence of characters
    map,        \* Vec<Vec<Tree>> built by parse_map
    set,        \* HashSet<Tree> filled by test_range
    ndirs,      \* how many of the four directions part_one has scanned
    views,      \* part_two: the value of test_view for every cell, row by row
    answer08,   \* Option<u32> returned by part_one / part_two
    \* ---- day 07
    pc07,       \* "parse" | "build" | "collect" | "answer" | "done" | "panic" | "overflow"
    part07,     \* 1 | 2: which of part_one, part_two runs
    input07,    \* the lines of the input, each a sequence of words
    commands07, \* Vec<Command> parsed from the lines
    root,       \* the Directory `dir` of get_sizes, built by process_command_stream
    sizes,      \* the Vec<usize> filled by collect_dir_sizes
    size,       \* the usize collect_dir_sizes returns for the root
    answer07,   \* Option<usize> returned by part_one / part_two
    \* ---- day 02
    pc02,       \* "parse" | "score" | "done": position in part_one / part_two
    part02,     \* 1 | 2: which of part_one, part_two runs
    rounds,     \* the Vec<Round> (part one) or Vec<Round2> (part two) parsed so far
    played,     \* the Rounds handed to calc_points
    answer02,   \* Option<u32> returned by part_one / part_two
    \* ---- day 04
    pc04,       \* "parse" | "count" | "done": position in part_one / part_two
    part04,     \* 1 | 2: which of part_one, part_two runs
    pairs,      \* the Vec<RangePair> parsed so far
    answer04,   \* Option<u32> returned by part_one / part_two
    \* ---- day 01
    pc01,       \* "elves" | "answer" | "done": position in part_one / part_two
    part01,     \* 1 | 2: which of part_one, part_two runs
    input01,    \* the lines of the input
    elves,      \* the Vec<Elf> of get_elves
    answer01,   \* Option<u32> returned by part_one / part_two
    \* ---- day 06
    pc06,       \* "scan" | "done": position in find_window
    part06,     \* 1 | 2: which of part_one, part_two runs
    input06,    \* the characters of the input
    result06,   \* the index of the window `position` is testing, counted from 0
    answer06,   \* Option<u32> returned by part_one / part_two
    \* ---- day 03
    pc03,       \* "parse" | "score" | "done": position in part_one / part_two
    part03,     \* 1 | 2: which of part_one, part_two runs
    lines03,    \* the lines of the input read so far, each a sequence of characters
    backpacks,  \* the Vec<Backpack> parsed so far
    answer03,   \* Option<u32> returned by part_one / part_two
    \* ---- day 05, CrateCollection::from_str
    pc05f,      \* "numbers" | "lines" | "done": position in from_str
    picture,    \* the text: the crate lines top to bottom and the number line
    nlines,     \* how many crate lines, counted from the bottom, have been read
    stacks05,   \* the `stacks` of from_str
    stack_ended,\* the `stack_ended` of from_str
    parsed      \* what from_str returned: "Ok", "BadStacking", ..., or "panic"

vars05 == <<pc05, part05, crates, before, command, applied, called, answer05>>
vars08 == <<pc08, part08, input08, map, set, ndirs, views, answer08>>
vars07 == <<pc07, part07, input07, commands07, root, sizes, size, answer07>>
vars02 == <<pc02, part02, rounds, played, answer02>>
vars04 == <<pc04, part04, pairs, answer04>>
vars01 == <<pc01, part01, input01, elves, answer01>>
vars06 == <<pc06, part06, input06, result06, answer06>>
vars03 == <<pc03, part03, lines03, backpacks, answer03>>
vars05f == <<pc05f, picture, nlines, stacks05, stack_ended, parsed>>
vars == <<build, vars05, vars08, vars07, vars02, vars04, vars01, vars06, vars03, vars05f>>

other05 == <<vars08, vars07, vars02, vars04, vars01, vars06, vars03, vars05f>>
other08 == <<vars05, vars07, vars02, vars04, vars01, vars06, vars03, vars05f>>
other07 == <<vars05, vars08, vars02, vars04, vars01, vars06, vars03, vars05f>>
other02 == <<vars05, vars08, vars07, vars04, vars01, vars06, vars03, vars05f>>
other04 == <<vars05, vars08, vars07, vars02, vars01, vars06, vars03, vars05f>>
other01 == <<vars05, vars08, vars07, vars02, vars04, vars06, vars03, vars05f>>
other06 == <<vars05, vars08, vars07, vars02, vars04, vars01, vars03, vars05f>>
other03 == <<vars05, vars08, vars07, vars02, vars04, vars01, vars06, vars05f>>
other05f == <<vars05, vars08, vars07, vars02, vars04, vars01, vars06, vars03>>

None == <<>>
Some(x) == <<x>>

Builds == {"debug", "release"}

\* a day that does not run: its variables keep these values
NoCommand == [amount |-> 0, from |-> 0, to |-> 0]

Idle05 ==
    /\ pc05 = "idle"
    /\ part05 = 0
    /\ crates = <<>>
    /\ before = <<>>
    /\ command = NoCommand
    /\ applied = "none"
    /\ called = FALSE
    /\ answer05 = None

Idle08 ==
    /\ pc08 = "idle"
    /\ part08 = 0
    /\ input08 = <<>>
    /\ map = <<>>
    /\ set = {}
    /\ ndirs = 0
    /\ views = <<>>
    /\ answer08 = None

Reverse(s) == [i \in 1..Len(s) |-> s[Len(s) + 1 - i]]

\* Iterator::max
max_of(q) ==
    IF q = <<>> THEN None
    ELSE Some(CHOOSE m \in {q[i] : i \in 1..Len(q)} : \A i \in 1..Len(q) : q[i] <= m)

RECURSIVE SeqsUpTo(_, _)
\* all sequences over S of length at most n
SeqsUpTo(S, n) ==
    IF n = 0 THEN {<<>>}
    ELSE LET shorter == SeqsUpTo(S, n - 1)
         IN shorter \cup {Append(s, x) : s \in {t \in shorter : Len(t) = n - 1}, x \in S}

\* Directory::default(): no children, the empty name
RootDirectory == [kind |-> "dir", name |-> "", children |-> <<>>]
Idle07 ==
    /\ pc07 = "idle"
    /\ part07 = 0
    /\ input07 = <<>>
    /\ commands07 = <<>>
    /\ root = RootDirectory
    /\ sizes = <<>>
    /\ size = 0
    /\ answer07 = None

Idle02 ==
    /\ pc02 = "idle"
    /\ part02 = 0
    /\ rounds = <<>>
    /\ played = <<>>
    /\ answer02 = None

Idle04 ==
    /\ pc04 = "idle"
    /\ part04 = 0
    /\ pairs = <<>>
    /\ answer04 = None

Idle01 ==
    /\ pc01 = "idle"
    /\ part01 = 0
    /\ input01 = <<>>
    /\ elves = <<>>
    /\ answer01 = None

Idle05f ==
    /\ pc05f = "idle"
    /\ picture = <<>>
    /\ nlines = 0
    /\ stacks05 = <<>>
    /\ stack_ended = <<>>
    /\ parsed = "none"

Idle03 ==
    /\ pc03 = "idle"
    /\ part03 = 0
    /\ lines03 = <<>>
    /\ backpacks = <<>>
    /\ answer03 = None

Idle06 ==
    /\ pc06 = "idle"
    /\ part06 = 0
    /\ input06 = <<>>
    /\ result06 = 0
    /\ answer06 = None

(***************************************************************************)
(*                               DAY 05                                    *)
(***************************************************************************)
CrateNames == {"A", "B"}
MaxStacks == 2
MaxCrates == 3

RECURSIVE NumCrates(_)
NumCrates(stacks) ==
    IF stacks = <<>> THEN 0 ELSE Len(Head(stacks)) + NumCrates(Tail(stacks))

CrateStacks == SeqsUpTo(CrateNames, MaxCrates)
\* the collections of at most MaxStacks stacks holding at most MaxCrates crates
CrateCollections == {c \in SeqsUpTo(CrateStacks, MaxStacks) : NumCrates(c) <= MaxCrates}
\* amounts up to one more than any stack holds, indices from 0 to one past the last stack
Commands == [amount : 0..(MaxCrates + 1), from : 0..(MaxStacks + 1), to : 0..(MaxStacks + 1)]

\* command.from - 1 / command.to - 1 on usize: overflow when the index is 0
index_overflows(i, bld) == i = 0 /\ bld = "debug"
\* Vec::get_mut(i - 1) is Some exactly for 0 <= i - 1 < len
get_mut_is_some(stacks, i) == (i - 1) \in 0..(Len(stacks) - 1)

push_bottom(stack, cr) == <<cr>> \o stack
\* Vec::push
push(stack, cr) == Append(stack, cr)

append_reversed(stack, taken) == stack \o Reverse(taken)
\* Vec::append
append(stack, taken) == stack \o taken

RECURSIVE apply_loop(_, _, _, _)
\* the loop of apply_command, from iteration i on
apply_loop(stacks, cmd, i, bld) ==
    IF i >= cmd.amount THEN [stacks |-> stacks, result |-> "Ok"]
    ELSE IF index_overflows(cmd.from, bld) THEN [stacks |-> stacks, result |-> "overflow"]
    ELSE IF ~get_mut_is_some(stacks, cmd.from) THEN [stacks |-> stacks, result |-> "BadFromIndex"]
    ELSE IF stacks[cmd.from] = <<>> THEN [stacks |-> stacks, result |-> "BadAmount"]
    ELSE LET src == stacks[cmd.from]
             cur_crate == src[Len(src)]
             popped == [stacks EXCEPT ![cmd.from] = SubSeq(src, 1, Len(src) - 1)]
         IN IF index_overflows(cmd.to, bld) THEN [stacks |-> popped, result |-> "overflow"]
            ELSE IF ~get_mut_is_some(popped, cmd.to) THEN [stacks |-> popped, result |-> "BadToIndex"]
            ELSE apply_loop([popped EXCEPT ![cmd.to] = push(@, cur_crate)], cmd, i + 1, bld)

apply_command(stacks, cmd, bld) == apply_loop(stacks, cmd, 0, bld)

new_apply_command(stacks, cmd, bld) ==
    IF index_overflows(cmd.from, bld) THEN [stacks |-> stacks, result |-> "overflow"]
    ELSE IF ~get_mut_is_some(stacks, cmd.from) THEN [stacks |-> stacks, result |-> "BadFromIndex"]
    ELSE LET take_vec == stacks[cmd.from]
         IN IF Len(take_vec) < cmd.amount THEN [stacks |-> stacks, result |-> "BadAmount"]
            ELSE LET at == Len(take_vec) - cmd.amount
                     taken_crates == SubSeq(take_vec, at + 1, Len(take_vec))
                     split == [stacks EXCEPT ![cmd.from] = SubSeq(take_vec, 1, at)]
                 IN IF index_overflows(cmd.to, bld) THEN [stacks |-> split, result |-> "overflow"]
                    ELSE IF ~get_mut_is_some(split, cmd.to) THEN [stacks |-> split, result |-> "BadToIndex"]
                    ELSE [stacks |-> [split EXCEPT ![cmd.to] = append(@, taken_crates)],
                          result |-> "Ok"]

\* CrateCollection::tops followed by collect::<Option<Vec<_>>>
tops(stacks) ==
    IF \E i \in 1..Len(stacks) : stacks[i] = <<>> THEN None
    ELSE Some([i \in 1..Len(stacks) |-> stacks[i][Len(stacks[i])]])

Start05 ==
    /\ pc05 = "run"
    /\ part05 \in {1, 2}
    /\ crates \in CrateCollections
    /\ before = crates
    /\ command = NoCommand
    /\ applied = "none"
    /\ called = FALSE
    /\ answer05 = None

\* one iteration of `for command in commands` with its .unwrap()
Command05(cmd, r) ==
    /\ pc05 = "run"
    /\ before' = crates
    /\ command' = cmd
    /\ crates' = r.stacks
    /\ applied' = r.result
    /\ called' = TRUE
    /\ pc05' = IF r.result = "Ok" THEN "run" ELSE "panic"
    /\ UNCHANGED <<part05, answer05, build, other05>>

PartOneCommand ==
    /\ part05 = 1
    /\ \E cmd \in Commands : Command05(cmd, apply_command(crates, cmd, build))

PartTwoCommand ==
    /\ part05 = 2
    /\ \E cmd \in Commands : Command05(cmd, new_apply_command(crates, cmd, build))

\* the commands are exhausted: the tops are collected and returned
ReturnTops ==
    /\ pc05 = "run"
    /\ answer05' = tops(crates)
    /\ pc05' = "done"
    /\ UNCHANGED <<part05, crates, before, command, applied, called, build, other05>>

Init05 == build \in Builds /\ Start05 /\ Idle08 /\ Idle07 /\ Idle02 /\ Idle04 /\ Idle01 /\ Idle06 /\ Idle03 /\ Idle05f
Next05 == PartOneCommand \/ PartTwoCommand \/ ReturnTops
Spec05 == Init05 /\ [][Next05]_vars

(* ------------------------- properties, day 05 ------------------------- *)
\* number of crates named c held in all stacks
CrateCount(stacks, c) ==
    Cardinality({p \in UNION {{<<i, j>> : j \in 1..Len(stacks[i])} : i \in 1..Len(stacks)} :
                    stacks[p[1]][p[2]] = c})
SameMultiset(s, t) == \A c \in CrateNames : CrateCount(s, c) = CrateCount(t, c)

Called05 == called
IndexInRange(stacks, i) == i \in 1..Len(stacks)
\* the precondition of the data model: 1 <= from,to <= |stacks|, amount <= |stack[from]|
ValidCommand(stacks, cmd) ==
    /\ IndexInRange(stacks, cmd.from)
    /\ IndexInRange(stacks, cmd.to)
    /\ cmd.amount <= Len(stacks[cmd.from])
TopOf(stack, n) == SubSeq(stack, Len(stack) - n + 1, Len(stack))
RestOf(stack, n) == SubSeq(stack, 1, Len(stack) - n)
\* stack `from` without its top n crates, then `moved` put on top of stack `to`
Moved(stacks, cmd, moved) ==
    LET removed == [stacks EXCEPT ![cmd.from] = RestOf(@, cmd.amount)]
    IN [removed EXCEPT ![cmd.to] = @ \o moved]

Returned05 == Called05 /\ applied \in {"Ok", "BadFromIndex", "BadToIndex", "BadAmount"}

\* C1: the multiset of crates after any call of apply_command or
\* new_apply_command that returns, a rejected one included, is the multiset
\* before it.
C1_Conserved == Returned05 => SameMultiset(before, crates)

\* C4: a command that pops from an empty stack or names a stack outside
\* 1..number of stacks makes part_one / part_two return None, without abort.
C4_BadCommandGivesNone ==
    (Returned05 /\ ~ValidCommand(before, command))
        => /\ pc05 # "panic"
           /\ (pc05 = "done" => answer05 = None)

\* C7 (as claimed): after apply_command with a valid command, from = to
\* included, the top `amount` crates of `from` are removed and lie reversed
\* on top of `to`, the other stacks unchanged.
C7_ReversedAlsoOntoItself ==
    (Called05 /\ part05 = 1 /\ ValidCommand(before, command))
        => /\ applied = "Ok"
           /\ crates = Moved(before, command, Reverse(TopOf(before[command.from], command.amount)))

\* C7 (amended): the same for from # to; with from = to the call leaves the
\* collection as it was.
C7_Reversed ==
    (Called05 /\ part05 = 1 /\ ValidCommand(before, command))
        => /\ applied = "Ok"
           /\ command.from # command.to =>
                crates = Moved(before, command, Reverse(TopOf(before[command.from], command.amount)))
           /\ command.from = command.to => crates = before

C7_Witness ==
    /\ Called05 /\ part05 = 1 /\ ValidCommand(before, command)
    /\ command.from # command.to
    /\ command.amount = 2
    /\ before[command.from] = <<"A", "B">>
    /\ Len(before[command.to]) > 0
    /\ applied = "Ok"

\* C8: after new_apply_command with a valid command, from = to included, the
\* top `amount` crates of `from` are removed and appended to `to` in their
\* bottom-to-top order, the other stacks unchanged.
C8_OrderKept ==
    (Called05 /\ part05 = 2 /\ ValidCommand(before, command))
        => /\ applied = "Ok"
           /\ crates = Moved(before, command, TopOf(before[command.from], command.amount))

C8_Witness ==
    /\ Called05 /\ part05 = 2 /\ ValidCommand(before, command)
    /\ command.from # command.to
    /\ command.amount = 2
    /\ before[command.from] = <<"A", "B">>
    /\ applied = "Ok"
    /\ crates[command.to][Len(crates[command.to])] = "B"

\* C18: apply_command and new_apply_command return BadFromIndex only for a
\* `from` outside 1..number of stacks, BadToIndex only for such a `to`,
\* BadAmount only for amount > |stack[from]|, and Ok exactly for the valid
\* commands, amount = 0 and index 0 included; both accept the same commands.
C18_ErrorResults ==
    Called05 =>
        /\ applied \in {"Ok", "BadFromIndex", "BadToIndex", "BadAmount"}
        /\ applied = "Ok" <=> ValidCommand(before, command)
        /\ applied = "BadFromIndex" => ~IndexInRange(before, command.from)
        /\ applied = "BadToIndex" => ~IndexInRange(before, command.to)
        /\ applied = "BadAmount" => /\ IndexInRange(before, command.from)
                                    /\ command.amount > Len(before[command.from])
        /\ (apply_command(before, command, build).result = "Ok")
              <=> (new_apply_command(before, command, build).result = "Ok")


(***************************************************************************)
(*                               DAY 08                                    *)
(***************************************************************************)
MaxCells == 12
GridDigits == {"3", "9"}
NotADigit == "x"
GridChars == GridDigits \cup {NotADigit}

\* char::to_string().parse::<usize>() of one character: Some for '0'..'9'
DigitChars == <<"0", "1", "2", "3", "4", "5", "6", "7", "8", "9">>
parse_digit(c) ==
    IF \E d \in 1..10 : DigitChars[d] = c
    THEN Some((CHOOSE d \in 1..10 : DigitChars[d] = c) - 1)
    ELSE None

GridShapes == {s \in (1..MaxCells) \X (1..MaxCells) : s[1] * s[2] <= MaxCells}
\* rectangular inputs of s[1] lines of s[2] characters, at most one of them no digit
GridsOf(s) ==
    LET clean == [1..s[1] -> [1..s[2] -> GridDigits]]
    IN clean \cup {[g EXCEPT ![p[1]][p[2]] = NotADigit] : g \in clean, p \in (1..s[1]) \X (1..s[2])}
Grids == UNION {GridsOf(s) : s \in GridShapes}

Malformed08(lines) ==
    \E y \in 1..Len(lines) : \E x \in 1..Len(lines[y]) : parse_digit(lines[y][x]) = None

\* parse_map: Tree { x, y, height } for every character, x and y counted from 0
parse_map(lines) ==
    [y \in 1..Len(lines) |->
        [x \in 1..Len(lines[y]) |->
            [x |-> x - 1, y |-> y - 1, height |-> parse_digit(lines[y][x])[1]]]]

Width(m) == Len(m[1])
Height(m) == Len(m)
\* the half-open range a..b
HalfOpen(a, b) == a..(b - 1)
InMap(m, x, y) == x \in 0..(Width(m) - 1) /\ y \in 0..(Height(m) - 1)
TreeAt(m, x, y) == m[y + 1][x + 1]

Directions == <<<<1, 0>>, <<-1, 0>>, <<0, 1>>, <<0, -1>>>>

RECURSIVE scan_highest(_, _, _, _, _)
\* scan_trees with the closure of test_range: the trees inserted into the set
\* on the line from (x, y) in direction dir, the running maximum being `last`
scan_highest(x, y, dir, m, last) ==
    IF ~InMap(m, x, y) THEN {}
    ELSE LET tree == TreeAt(m, x, y)
         IN IF tree.height > last
            THEN {tree} \cup (IF tree.height < 9
                              THEN scan_highest(x + dir[1], y + dir[2], dir, m, tree.height)
                              ELSE {})
            ELSE scan_highest(x + dir[1], y + dir[2], dir, m, last)

test_range_rows(dir, m) ==
    IF dir[2] = 1 THEN HalfOpen(0, 1)
    ELSE IF dir[2] = -1 THEN HalfOpen(Height(m) - 1, Height(m))
    ELSE HalfOpen(0, Height(m))

test_range_cols(dir, m) ==
    IF dir[1] = 1 THEN HalfOpen(0, 1)
    ELSE IF dir[1] = -1 THEN HalfOpen(Width(m) - 1, Height(m))
    ELSE HalfOpen(0, Width(m))

\* test_range: the trees one direction adds to the set
test_range(dir, m) ==
    UNION {scan_highest(col, row, dir, m, -1) :
              row \in test_range_rows(dir, m), col \in test_range_cols(dir, m)}

RECURSIVE scan_view_past_equal(_, _, _, _, _, _)
scan_view_past_equal(x, y, dir, m, own, visible) ==
    IF ~InMap(m, x, y) THEN visible
    ELSE IF visible + 1 = 1 \/ TreeAt(m, x, y).height <= own
         THEN scan_view_past_equal(x + dir[1], y + dir[2], dir, m, own, visible + 1)
         ELSE visible + 1

RECURSIVE scan_view(_, _, _, _, _, _)
\* scan_trees with the closure of test_view: the value of `visible` when the
\* scan from (x, y) in direction dir ends, `own` being the height at position
scan_view(x, y, dir, m, own, visible) ==
    IF ~InMap(m, x, y) THEN visible
    ELSE IF visible + 1 = 1 \/ TreeAt(m, x, y).height < own
         THEN scan_view(x + dir[1], y + dir[2], dir, m, own, visible + 1)
         ELSE visible + 1

RECURSIVE product(_)
\* Iterator::product
product(q) == IF q = <<>> THEN 1 ELSE Head(q) * product(Tail(q))

\* test_view: the product over the four directions of visible - 1
test_view(position, m) ==
    product([d \in 1..Len(Directions) |->
                scan_view(position[1], position[2], Directions[d], m,
                          TreeAt(m, position[1], position[2]).height, 0) - 1])

Start08 ==
    /\ pc08 = "parse"
    /\ part08 \in {1, 2}
    /\ input08 \in Grids
    /\ map = <<>>
    /\ set = {}
    /\ ndirs = 0
    /\ views = <<>>
    /\ answer08 = None

\* let map = parse_map(input): the unwrap panics on a character that is no digit
ParseMap ==
    /\ pc08 = "parse"
    /\ IF Malformed08(input08)
       THEN pc08' = "panic" /\ map' = map
       ELSE /\ pc08' = IF part08 = 1 THEN "range" ELSE "view"
            /\ map' = parse_map(input08)
    /\ UNCHANGED <<part08, input08, set, ndirs, views, answer08, build, other08>>

\* one iteration of `for dir in vec![(1, 0), (-1, 0), (0, 1), (0, -1)]`
TestRange ==
    /\ pc08 = "range"
    /\ ndirs < Len(Directions)
    /\ set' = set \cup test_range(Directions[ndirs + 1], map)
    /\ ndirs' = ndirs + 1
    /\ UNCHANGED <<pc08, part08, input08, map, views, answer08, build, other08>>

\* Some(set.len() as u32)
ReturnCount ==
    /\ pc08 = "range"
    /\ ndirs = Len(Directions)
    /\ answer08' = Some(Cardinality(set))
    /\ pc08' = "done"
    /\ UNCHANGED <<part08, input08, map, set, ndirs, views, build, other08>>

\* part_two: test_view((x, y), &map) for every tree of every row
TestViews ==
    /\ pc08 = "view"
    /\ views' = [r \in 1..Len(map) |-> [c \in 1..Len(map[r]) |-> test_view(<<c - 1, r - 1>>, map)]]
    /\ pc08' = "max"
    /\ UNCHANGED <<part08, input08, map, set, ndirs, answer08, build, other08>>

\* part_two: the maximum of every row, then the maximum of these; max() of
\* nothing is None and its unwrap panics
ReturnMax ==
    /\ pc08 = "max"
    /\ IF views = <<>> \/ \E r \in 1..Len(views) : views[r] = <<>>
       THEN pc08' = "panic" /\ answer08' = answer08
       ELSE /\ pc08' = "done"
            /\ answer08' = Some(max_of([r \in 1..Len(views) |-> max_of(views[r])[1]])[1])
    /\ UNCHANGED <<part08, input08, map, set, ndirs, views, build, other08>>

Init08 == build = "release" /\ Start08 /\ Idle05 /\ Idle07 /\ Idle02 /\ Idle04 /\ Idle01 /\ Idle06 /\ Idle03 /\ Idle05f
Next08 == ParseMap \/ TestRange \/ ReturnCount \/ TestViews \/ ReturnMax
Spec08 == Init08 /\ [][Next08]_vars

(* ------------------------- properties, day 08 ------------------------- *)
\* the cells strictly beyond (x, y) in direction dir, up to the edge
Ray(m, x, y, dir) ==
    {t \in UNION {{m[r][c] : c \in 1..Width(m)} : r \in 1..Height(m)} :
        \E k \in 1..(Width(m) + Height(m)) : t.x = x + k * dir[1] /\ t.y = y + k * dir[2]}
Visible(m, tree) ==
    \E d \in 1..Len(Directions) :
        \A t \in Ray(m, tree.x, tree.y, Directions[d]) : t.height < tree.height
VisibleTrees(m) ==
    {t \in UNION {{m[r][c] : c \in 1..Width(m)} : r \in 1..Height(m)} : Visible(m, t)}

\* C2: on every non-empty rectangular grid, square or not, part_one returns
\* the number of cells with a cardinal ray to the edge holding no cell of
\* height >= the cell's own.
C2_CountsVisible == (part08 = 1 /\ pc08 = "done") => answer08 = Some(Cardinality(VisibleTrees(map)))

Cells(m) == (0..(Width(m) - 1)) \X (0..(Height(m) - 1))
\* the distances from (x, y) in direction dir at which the grid has a cell
Steps(m, x, y, dir) ==
    {k \in 1..(Width(m) + Height(m)) : InMap(m, x + k * dir[1], y + k * dir[2])}
\* the viewing distance: the number of cells outward up to and including the
\* first one of height >= the cell's own, all cells to the edge without one
ViewingDistance(m, x, y, dir) ==
    LET blocking == {k \in Steps(m, x, y, dir) :
                        TreeAt(m, x + k * dir[1], y + k * dir[2]).height >= TreeAt(m, x, y).height}
    IN IF blocking = {} THEN Cardinality(Steps(m, x, y, dir))
       ELSE CHOOSE k \in blocking : \A j \in blocking : k <= j
ScenicScore(m, x, y) ==
    ViewingDistance(m, x, y, <<1, 0>>) * ViewingDistance(m, x, y, <<-1, 0>>)
        * ViewingDistance(m, x, y, <<0, 1>>) * ViewingDistance(m, x, y, <<0, -1>>)
OnBorder(m, x, y) == x = 0 \/ y = 0 \/ x = Width(m) - 1 \/ y = Height(m) - 1
\* part_two has parsed the grid and called test_view for its cells
Viewed08 == part08 = 2 /\ views # <<>>

\* C13: for every cell of a non-empty rectangular grid test_view returns the
\* product over the four directions of the viewing distance; every border
\* cell, so every corner cell, has scenic score 0; part_two returns the
\* maximum of the scores.
C13_ScenicScore ==
    Viewed08 =>
        /\ \A c \in Cells(map) :
              /\ views[c[2] + 1][c[1] + 1] = ScenicScore(map, c[1], c[2])
              /\ OnBorder(map, c[1], c[2]) => views[c[2] + 1][c[1] + 1] = 0
        /\ pc08 # "panic"
        /\ pc08 = "done" =>
              /\ answer08 # None
              /\ \E c \in Cells(map) : answer08[1] = ScenicScore(map, c[1], c[2])
              /\ \A c \in Cells(map) : answer08[1] >= ScenicScore(map, c[1], c[2])

\* 3 lines of 4: the 9 at (1, 1) sees 1 left, 2 right (past a 3, up to the
\* edge), 1 up and 1 down
C13_Witness ==
    /\ part08 = 2 /\ pc08 = "done"
    /\ input08 = << <<"3", "3", "3", "3">>, <<"9", "9", "3", "3">>, <<"3", "3", "3", "3">> >>
    /\ views[2] = <<0, 2, 1, 0>>
    /\ answer08 = Some(2)


(***************************************************************************)
(*                               DAY 07                                    *)
(***************************************************************************)
MaxLines07 == 4
SmallSize == 100000
TargetSize == 40000000

\* the decimal words of the inputs and the usize each parses to
SizeWords == {"10000000", "45000000"}
parse_usize(w) ==
    CASE w = "10000000" -> Some(10000000)
      [] w = "45000000" -> Some(45000000)
      [] OTHER -> None

\* a line is the sequence of its words, which single spaces separate
Lines07 ==
    { <<"$", "cd", "a">>, <<"$", "cd", "..">>, <<"$", "ls">>, <<"dir", "a">>,
      <<"10000000", "f">>, <<"45000000", "g">>, <<"x">>, <<"$", "cd">> }
Inputs07 == SeqsUpTo(Lines07, MaxLines07)

\* Command::from_str: Ok(command) is <<"Ok", command>>, Err(_) is <<"Err">>;
\* "$ cd" with nothing behind it panics in strip_prefix("$ cd ").unwrap()
Err07 == <<"Err">>
Ok07(c) == <<"Ok", c>>
\* the words from the n-th on: the rest of the line
Rest(words, n) == SubSeq(words, n, Len(words))
FileNode(sz, nm) == [kind |-> "file", size |-> sz, name |-> nm]
DirNode(nm) == [kind |-> "dir", name |-> nm, children |-> <<>>]

fs_node_from_str(words) ==
    IF words[1] = "dir"
    THEN \* Directory::from_str: "dir", one whitespace, a non-empty name
         IF Len(words) < 2 THEN Err07
         ELSE Ok07([kind |-> "node", node |-> DirNode(Rest(words, 2))])
    ELSE \* File::from_str: split_once(whitespace), a usize, a non-empty name
         IF Len(words) < 2 THEN Err07
         ELSE IF parse_usize(words[1]) = None THEN Err07
         ELSE Ok07([kind |-> "node", node |-> FileNode(parse_usize(words[1])[1], Rest(words, 2))])

command_from_str(words) ==
    IF words = <<>> THEN Err07
    ELSE IF words[1] = "$"
    THEN IF Len(words) < 2 THEN Err07
         ELSE IF words[2] = "ls" THEN (IF Len(words) = 2 THEN Ok07([kind |-> "ls"]) ELSE Err07)
         ELSE IF words[2] = "cd"
              THEN IF Len(words) < 3 THEN <<"panic">>
                   ELSE IF Rest(words, 3) = <<"..">> THEN Ok07([kind |-> "up"])
                   ELSE Ok07([kind |-> "cd", name |-> Rest(words, 3)])
         ELSE Err07
    ELSE fs_node_from_str(words)

Malformed07(lines) == \E i \in 1..Len(lines) : command_from_str(lines[i])[1] # "Ok"

\* position of the first child directory called nm, 0 when there is none
find_dir(children, nm) ==
    LET hits == {i \in 1..Len(children) : children[i].kind = "dir" /\ children[i].name = nm}
    IN IF hits = {} THEN 0 ELSE CHOOSE i \in hits : \A j \in hits : i <= j

RECURSIVE process_command_stream(_, _)
\* Directory::process_command_stream: the directory as it is when the call
\* returns, and the commands it has left in the iterator
process_command_stream(d, cmds) ==
    IF cmds = <<>> THEN [dir |-> d, rest |-> <<>>]
    ELSE LET c == Head(cmds)
             rest == Tail(cmds)
         IN IF c.kind = "up" THEN [dir |-> d, rest |-> rest]
            ELSE IF c.kind = "cd"
            THEN LET found == find_dir(d.children, c.name)
                     children == IF found # 0 THEN d.children
                                 ELSE Append(d.children, DirNode(c.name))
                     at == IF found # 0 THEN found ELSE Len(children)
                     sub == process_command_stream(children[at], rest)
                 IN process_command_stream(
                        [d EXCEPT !.children = [children EXCEPT ![at] = sub.dir]], sub.rest)
            ELSE IF c.kind = "node"
            THEN process_command_stream([d EXCEPT !.children = Append(@, c.node)], rest)
            ELSE process_command_stream(d, rest)

RECURSIVE collect_dir_sizes(_, _), collect_children(_, _, _)
\* the sum over the children from the i-th on, the directories among them
\* pushing their sizes to out
collect_children(children, i, out) ==
    IF i > Len(children) THEN [size |-> 0, out |-> out]
    ELSE LET node == children[i]
             this == IF node.kind = "file" THEN [size |-> node.size, out |-> out]
                     ELSE collect_dir_sizes(node, out)
             more == collect_children(children, i + 1, this.out)
         IN [size |-> this.size + more.size, out |-> more.out]
collect_dir_sizes_root_first(d, out) ==
    LET r == collect_children(d.children, 1, out)
    IN [size |-> r.size, out |-> <<r.size>> \o r.out]
\* Directory::collect_dir_sizes
collect_dir_sizes(d, out) ==
    LET r == collect_children(d.children, 1, out)
    IN [size |-> r.size, out |-> Append(r.out, r.size)]

RECURSIVE SumSeq(_)
SumSeq(q) == IF q = <<>> THEN 0 ELSE Head(q) + SumSeq(Tail(q))

\* usize >= on values kept modulo 2^64: a negative representative stands for
\* a value near 2^64, above every value that did not wrap
usize_ge(a, b) == IF (a < 0) = (b < 0) THEN a >= b ELSE a < 0

\* Iterator::min over the sizes that pass the filter of part_two
min_over(q, over) ==
    LET kept == {q[i] : i \in {j \in 1..Len(q) : usize_ge(q[j], over)}}
    IN IF kept = {} THEN None ELSE Some(CHOOSE m \in kept : \A k \in kept : m <= k)

Start07 ==
    /\ pc07 = "parse"
    /\ part07 \in {1, 2}
    /\ input07 \in Inputs07
    /\ commands07 = <<>>
    /\ root = RootDirectory
    /\ sizes = <<>>
    /\ size = 0
    /\ answer07 = None

\* get_sizes: input.lines().map(|line| line.parse().unwrap()).collect()
ParseCommands ==
    /\ pc07 = "parse"
    /\ IF Malformed07(input07)
       THEN pc07' = "panic" /\ commands07' = commands07
       ELSE /\ pc07' = "build"
            /\ commands07' = [i \in 1..Len(input07) |-> command_from_str(input07[i])[2]]
    /\ UNCHANGED <<part07, input07, root, sizes, size, answer07, build, other07>>

\* get_sizes: dir.process_command_stream(&mut commands.into_iter())
ProcessCommandStream ==
    /\ pc07 = "build"
    /\ root' = process_command_stream(RootDirectory, commands07).dir
    /\ pc07' = "collect"
    /\ UNCHANGED <<part07, input07, commands07, sizes, size, answer07, build, other07>>

\* get_sizes: let size = dir.collect_dir_sizes(&mut sizes)
CollectDirSizes ==
    /\ pc07 = "collect"
    /\ LET r == collect_dir_sizes(root, <<>>)
       IN sizes' = r.out /\ size' = r.size
    /\ pc07' = "answer"
    /\ UNCHANGED <<part07, input07, commands07, root, answer07, build, other07>>

PartOneSum ==
    /\ pc07 = "answer"
    /\ part07 = 1
    /\ answer07' = Some(SumSeq([i \in 1..Len(sizes) |->
                                  IF sizes[i] <= SmallSize THEN sizes[i] ELSE 0]))
    /\ pc07' = "done"
    /\ UNCHANGED <<part07, input07, commands07, root, sizes, size, build, other07>>

\* let over = size - target_size: below zero it panics in a debug build and
\* wraps in a release build
PartTwoMin ==
    /\ pc07 = "answer"
    /\ part07 = 2
    /\ IF size < TargetSize /\ build = "debug"
       THEN pc07' = "overflow" /\ answer07' = answer07
       ELSE pc07' = "done" /\ answer07' = min_over(sizes, size - TargetSize)
    /\ UNCHANGED <<part07, input07, commands07, root, sizes, size, build, other07>>

Init07 == build \in Builds /\ Start07 /\ Idle05 /\ Idle08 /\ Idle02 /\ Idle04 /\ Idle01 /\ Idle06 /\ Idle03 /\ Idle05f
Next07 == ParseCommands \/ ProcessCommandStream \/ CollectDirSizes \/ PartOneSum \/ PartTwoMin
Spec07 == Init07 /\ [][Next07]_vars

(* ------------------------- properties, day 07 ------------------------- *)
\* the directory sizes that are >= total_size - 40_000_000, as integers
Qualifying == {sizes[i] : i \in {j \in 1..Len(sizes) : sizes[j] >= size - TargetSize}}

\* C3: part_two returns the least directory size >= total_size - 40_000_000,
\* the subtraction being the mathematical one, and no answer only when no
\* directory qualifies.
C3_LeastQualifying ==
    (part07 = 2 /\ pc07 \in {"done", "overflow"})
        => /\ pc07 = "done"
           /\ Qualifying # {} => /\ answer07 # None
                                 /\ answer07[1] \in Qualifying
                                 /\ \A q \in Qualifying : answer07[1] <= q
           /\ Qualifying = {} => answer07 = None

\* C5: an input with a structurally malformed line makes part_one and
\* part_two return the 'no answer' value: they do not abort.
C5_MalformedGivesNone ==
    /\ (Malformed07(input07) /\ pc07 # "parse") => (pc07 = "done" /\ answer07 = None)
    /\ (Malformed08(input08) /\ pc08 # "parse") => (pc08 = "done" /\ answer08 = None)

RECURSIVE Flatten(_)
Flatten(qs) == IF qs = <<>> THEN <<>> ELSE Head(qs) \o Flatten(Tail(qs))

RECURSIVE FileTotal(_)
\* the sum of the sizes of all files reachable from directory d
FileTotal(d) ==
    SumSeq([i \in 1..Len(d.children) |->
               IF d.children[i].kind = "file" THEN d.children[i].size
               ELSE FileTotal(d.children[i])])

RECURSIVE PostOrderTotals(_)
\* one subtree total per directory below and including d: those of the
\* child directories, in the order of the children, then that of d itself
PostOrderTotals(d) ==
    Flatten([i \in 1..Len(d.children) |->
                IF d.children[i].kind = "file" THEN <<>>
                ELSE PostOrderTotals(d.children[i])])
        \o <<FileTotal(d)>>

Collected07 == pc07 \in {"answer", "done", "overflow"}

\* C11: for the tree built from the command stream, collect_dir_sizes
\* returns the sum of the sizes of all files reachable from the root, and
\* the list it fills holds one entry per directory, root included, each the
\* sum of the file sizes of that directory's subtree, in post-order with the
\* root's entry last.
C11_PostOrderSubtreeSums ==
    Collected07 => /\ size = FileTotal(root)
                   /\ sizes = PostOrderTotals(root)

\* root holds directory a with file f, then file g: a's entry comes first
C11_Witness ==
    /\ Collected07
    /\ Len(root.children) = 2
    /\ root.children[1].kind = "dir"
    /\ root.children[1].children = <<FileNode(10000000, <<"f">>)>>
    /\ root.children[2] = FileNode(45000000, <<"g">>)
    /\ sizes = <<10000000, 55000000>>
    /\ size = 55000000

RECURSIVE DirAt(_, _)
\* the directory reached from d by the child positions of path
DirAt(d, path) == IF path = <<>> THEN d ELSE DirAt(d.children[Head(path)], Tail(path))

RECURSIVE WithDirAt(_, _, _)
\* d with the directory at path replaced by new
WithDirAt(d, path, new) ==
    IF path = <<>> THEN new
    ELSE [d EXCEPT !.children[Head(path)] = WithDirAt(@, Tail(path), new)]

RECURSIVE Walk(_, _, _)
\* the tree after the commands, path being the working directory: a listing
\* line is appended to the working directory, `cd name` moves into the first
\* child directory of that name or into a new one, `cd ..` moves to the
\* parent (the root is its own parent)
Walk(tree, path, cmds) ==
    IF cmds = <<>> THEN tree
    ELSE LET c == Head(cmds)
             wd == DirAt(tree, path)
         IN CASE c.kind = "node" ->
                   Walk(WithDirAt(tree, path, [wd EXCEPT !.children = Append(@, c.node)]),
                        path, Tail(cmds))
              [] c.kind = "cd" ->
                   IF find_dir(wd.children, c.name) # 0
                   THEN Walk(tree, Append(path, find_dir(wd.children, c.name)), Tail(cmds))
                   ELSE Walk(WithDirAt(tree, path,
                                 [wd EXCEPT !.children = Append(@, DirNode(c.name))]),
                             Append(path, Len(wd.children) + 1), Tail(cmds))
              [] c.kind = "up" ->
                   Walk(tree, SubSeq(path, 1, Len(path) - 1), Tail(cmds))
              [] OTHER -> Walk(tree, path, Tail(cmds))

RECURSIVE NumNodes(_)
\* the number of files and directories below d
NumNodes(d) ==
    SumSeq([i \in 1..Len(d.children) |->
               IF d.children[i].kind = "file" THEN 1 ELSE 1 + NumNodes(d.children[i])])

Built07 == pc07 \in {"collect", "answer", "done", "overflow"}

\* C16: every listing line of the command stream is appended, in the order
\* observed, to the child list of the working directory, which starts at the
\* root, moves into the child on `cd <name>` and to the parent on `cd ..`;
\* no listing line is dropped, for any mix of `cd <name>` and `cd ..`.
C16_ListingsKept ==
    Built07 =>
        /\ root = Walk(RootDirectory, <<>>, commands07)
        /\ NumNodes(root) >= Cardinality({i \in 1..Len(commands07) : commands07[i].kind = "node"})


(***************************************************************************)
(*                               DAY 02                                    *)
(***************************************************************************)
MaxRounds == 2

Shapes == {"Rock", "Paper", "Scissors"}
Conditions == {"Draw", "Win", "Lose"}

\* `shape as u8`: the position of the variant in enum Shape
shape_as_u8(sh) ==
    CASE sh = "Rock" -> 0
      [] sh = "Paper" -> 1
      [] sh = "Scissors" -> 2

condition_as_u8_lose_first(cond) ==
    CASE cond = "Lose" -> 0
      [] cond = "Draw" -> 1
      [] cond = "Win" -> 2
\* `condition as u8`: the position of the variant in enum Condition
condition_as_u8(cond) ==
    CASE cond = "Draw" -> 0
      [] cond = "Win" -> 1
      [] cond = "Lose" -> 2

char_1_to_shape(c) ==
    CASE c = "A" -> Some("Rock")
      [] c = "B" -> Some("Paper")
      [] c = "C" -> Some("Scissors")
      [] OTHER -> None

char_2_to_shape(c) ==
    CASE c = "X" -> Some("Rock")
      [] c = "Y" -> Some("Paper")
      [] c = "Z" -> Some("Scissors")
      [] OTHER -> None

char_2_to_condition(c) ==
    CASE c = "X" -> Some("Lose")
      [] c = "Y" -> Some("Draw")
      [] c = "Z" -> Some("Win")
      [] OTHER -> None

\* the lines read: sequences of characters
Lines02 == ({"A", "B", "C", "D"} \X {" ", "-"} \X {"X", "Y", "Z", "W"}) \cup {<<"A">>, <<"A", " ", "X", "Y">>}

\* Round::from_str: <<"Ok", round>> or <<error>>
round_from_str(line) ==
    IF Len(line) # 3 \/ line[2] # " " THEN <<"FormatError">>
    ELSE IF char_1_to_shape(line[1]) = None THEN <<"Shape1Error">>
    ELSE IF char_2_to_shape(line[3]) = None THEN <<"Shape2Error">>
    ELSE <<"Ok", <<char_1_to_shape(line[1])[1], char_2_to_shape(line[3])[1]>> >>

\* Round2::from_str: <<"Ok", round2>> or <<error>>
round2_from_str(line) ==
    IF Len(line) # 3 \/ line[2] # " " THEN <<"FormatError">>
    ELSE IF char_1_to_shape(line[1]) = None THEN <<"Shape1Error">>
    ELSE IF char_2_to_condition(line[3]) = None THEN <<"Shape2Error">>
    ELSE <<"Ok", <<char_1_to_shape(line[1])[1], char_2_to_condition(line[3])[1]>> >>

to_round(round2) ==
    LET n == (shape_as_u8(round2[1]) + condition_as_u8(round2[2])) % 3
    IN <<round2[1], IF n = 0 THEN "Rock" ELSE IF n = 1 THEN "Paper" ELSE "Scissors">>

calc_points_own_minus_opponent(round) ==
    LET diff == (shape_as_u8(round[2]) - shape_as_u8(round[1])) % 3
        win_points == IF diff = 0 THEN 3 ELSE IF diff = 1 THEN 0 ELSE 6
        choice_points == CASE round[2] = "Rock" -> 1
                           [] round[2] = "Paper" -> 2
                           [] round[2] = "Scissors" -> 3
    IN win_points + choice_points
calc_points(round) ==
    LET diff == (shape_as_u8(round[1]) - shape_as_u8(round[2])) % 3
        win_points == IF diff = 0 THEN 3 ELSE IF diff = 1 THEN 0 ELSE 6
        choice_points == CASE round[2] = "Rock" -> 1
                           [] round[2] = "Paper" -> 2
                           [] round[2] = "Scissors" -> 3
    IN win_points + choice_points

Start02 ==
    /\ pc02 = "parse"
    /\ part02 \in {1, 2}
    /\ rounds = <<>>
    /\ played = <<>>
    /\ answer02 = None

\* parse_rounds: the next line is parsed; an error ends the part with None
ParseRound ==
    /\ pc02 = "parse"
    /\ Len(rounds) < MaxRounds
    /\ \E line \in Lines02 :
          LET r == IF part02 = 1 THEN round_from_str(line) ELSE round2_from_str(line)
          IN IF r[1] = "Ok"
             THEN rounds' = Append(rounds, r[2]) /\ UNCHANGED <<pc02, answer02>>
             ELSE pc02' = "done" /\ answer02' = None /\ UNCHANGED rounds
    /\ UNCHANGED <<part02, played, build, other02>>

\* parse_rounds returns Some(rounds): the input has no further line
RoundsParsed ==
    /\ pc02 = "parse"
    /\ pc02' = "score"
    /\ UNCHANGED <<part02, rounds, played, answer02, build, other02>>

\* Some(rounds.iter().map(..).sum())
ScoreRounds ==
    /\ pc02 = "score"
    /\ played' = IF part02 = 1 THEN rounds ELSE [i \in 1..Len(rounds) |-> to_round(rounds[i])]
    /\ answer02' = Some(SumSeq([i \in 1..Len(rounds) |-> calc_points(played'[i])]))
    /\ pc02' = "done"
    /\ UNCHANGED <<part02, rounds, build, other02>>

Init02 == build = "release" /\ Start02 /\ Idle05 /\ Idle08 /\ Idle07 /\ Idle04 /\ Idle01 /\ Idle06 /\ Idle03 /\ Idle05f
Next02 == ParseRound \/ RoundsParsed \/ ScoreRounds
Spec02 == Init02 /\ [][Next02]_vars

(* ------------------------- properties, day 02 ------------------------- *)
RockPaperScissors == [Rock |-> 0, Paper |-> 1, Scissors |-> 2]
ShapeOfNumber(n) == CHOOSE sh \in Shapes : RockPaperScissors[sh] = n
LoseDrawWin == [Lose |-> 0, Draw |-> 1, Win |-> 2]
DrawWinLose == [Draw |-> 0, Win |-> 1, Lose |-> 2]
Scored2 == part02 = 2 /\ pc02 = "done" /\ answer02 # None
\* every round of part two was turned into (opponent, (opponent + offset) mod 3)
OwnByOffset(offset) ==
    /\ Len(played) = Len(rounds)
    /\ \A i \in 1..Len(rounds) :
          played[i] = <<rounds[i][1],
                        ShapeOfNumber((RockPaperScissors[rounds[i][1]] + offset[rounds[i][2]]) % 3)>>

\* C6 (as claimed): to_round maps (opponent, outcome) to
\* own = (opponent + offset) mod 3 with the offsets Lose=0, Draw=1, Win=2.
C6_OffsetsLoseDrawWin == Scored2 => OwnByOffset(LoseDrawWin)

\* C6 (amended): the offsets are Draw=0, Win=1, Lose=2.
C6_OffsetsDrawWinLose == Scored2 => OwnByOffset(DrawWinLose)

C6_Witness ==
    /\ Scored2
    /\ rounds = <<<<"Rock", "Lose">>, <<"Paper", "Win">>>>
    /\ played = <<<<"Rock", "Scissors">>, <<"Paper", "Scissors">>>>

OutcomePoints == [Lose |-> 0, Draw |-> 3, Win |-> 6]
ShapeBonus == [Rock |-> 1, Paper |-> 2, Scissors |-> 3]

\* C14: the points calc_points awards to to_round(opponent, outcome) are the
\* points of the requested outcome (Lose 0, Draw 3, Win 6) plus the bonus of
\* the derived own shape, for every opponent shape and every outcome.
C14_RoundTrip ==
    Scored2 =>
        /\ Len(played) = Len(rounds)
        /\ \A i \in 1..Len(rounds) : played[i][1] = rounds[i][1]
        /\ answer02[1] = SumSeq([i \in 1..Len(rounds) |->
                                   OutcomePoints[rounds[i][2]] + ShapeBonus[played[i][2]]])

C14_Witness ==
    /\ Scored2
    /\ rounds = <<<<"Rock", "Win">>, <<"Scissors", "Lose">>>>
    /\ played = <<<<"Rock", "Paper">>, <<"Scissors", "Paper">>>>
    /\ answer02 = Some(10)


(***************************************************************************)
(*                               DAY 04                                    *)
(***************************************************************************)
MaxPairs == 1

\* the decimal words of the inputs; str::parse::<u8> accepts 0..255
NumberWords == {"1", "2", "3", "256"}
parse_u8(w) ==
    CASE w = <<"1">> -> Some(1)
      [] w = <<"2">> -> Some(2)
      [] w = <<"3">> -> Some(3)
      [] OTHER -> None

\* a line is the sequence of its tokens: decimal words, "-" and ","
Lines04 ==
    {<<l[1], "-", l[2], ",", l[3], "-", l[4]>> : l \in NumberWords \X NumberWords \X NumberWords \X NumberWords}
        \cup {<<"1", "-", "2">>, <<"1", ",", "2">>, <<"1", "-", "2", ",", "3">>}

\* str::split_once: the tokens before and after the first `sep`, None without one
split_once(tokens, sep) ==
    LET at == {i \in 1..Len(tokens) : tokens[i] = sep}
    IN IF at = {} THEN None
       ELSE LET first == CHOOSE i \in at : \A j \in at : i <= j
            IN Some(<<SubSeq(tokens, 1, first - 1), SubSeq(tokens, first + 1, Len(tokens))>>)

\* Range::from_str
range_from_str(tokens) ==
    LET halves == split_once(tokens, "-")
    IN IF halves = None THEN <<"BadFormat">>
       ELSE IF parse_u8(halves[1][1]) = None \/ parse_u8(halves[1][2]) = None THEN <<"BadInt">>
       ELSE <<"Ok", <<parse_u8(halves[1][1])[1], parse_u8(halves[1][2])[1]>> >>

\* RangePair::from_str
range_pair_from_str(tokens) ==
    LET halves == split_once(tokens, ",")
    IN IF halves = None THEN <<"BadFormat">>
       ELSE IF range_from_str(halves[1][1])[1] # "Ok" \/ range_from_str(halves[1][2])[1] # "Ok"
            THEN <<"BadRange">>
       ELSE <<"Ok", <<range_from_str(halves[1][1])[2], range_from_str(halves[1][2])[2]>> >>

\* Range::contains
range_contains(self, other) == self[1] <= other[1] /\ self[2] >= other[2]

range_overlaps_strictly(self, other) == self[1] < other[2] /\ self[2] > other[1]
\* Range::overlaps
range_overlaps(self, other) == self[1] <= other[2] /\ self[2] >= other[1]

\* RangePair::contains
pair_contains(pair) == range_contains(pair[1], pair[2]) \/ range_contains(pair[2], pair[1])
\* RangePair::overlaps
pair_overlaps(pair) == range_overlaps(pair[1], pair[2])

Start04 ==
    /\ pc04 = "parse"
    /\ part04 \in {1, 2}
    /\ pairs = <<>>
    /\ answer04 = None

\* parse_pairs: the next line is parsed; an error ends the part with None
ParsePair ==
    /\ pc04 = "parse"
    /\ Len(pairs) < MaxPairs
    /\ \E line \in Lines04 :
          LET r == range_pair_from_str(line)
          IN IF r[1] = "Ok"
             THEN pairs' = Append(pairs, r[2]) /\ UNCHANGED <<pc04, answer04>>
             ELSE pc04' = "done" /\ answer04' = None /\ UNCHANGED pairs
    /\ UNCHANGED <<part04, build, other04>>

\* parse_pairs returns Some(pairs): the input has no further line
PairsParsed ==
    /\ pc04 = "parse"
    /\ pc04' = "count"
    /\ UNCHANGED <<part04, pairs, answer04, build, other04>>

\* Some(pairs.iter().map(|pair| pair.contains() as u32).sum()), or overlaps()
CountPairs ==
    /\ pc04 = "count"
    /\ answer04' = Some(Cardinality({i \in 1..Len(pairs) :
                          IF part04 = 1 THEN pair_contains(pairs[i]) ELSE pair_overlaps(pairs[i])}))
    /\ pc04' = "done"
    /\ UNCHANGED <<part04, pairs, build, other04>>

Init04 == build = "release" /\ Start04 /\ Idle05 /\ Idle08 /\ Idle07 /\ Idle02 /\ Idle01 /\ Idle06 /\ Idle03 /\ Idle05f
Next04 == ParsePair \/ PairsParsed \/ CountPairs
Spec04 == Init04 /\ [][Next04]_vars

(* ------------------------- properties, day 04 ------------------------- *)
Ordered(pair) == pair[1][1] <= pair[1][2] /\ pair[2][1] <= pair[2][2]

\* C9 (as claimed): for every range pair the parser accepts, contains()
\* implies overlaps().
C9_ContainsImpliesOverlaps ==
    \A i \in 1..Len(pairs) : pair_contains(pairs[i]) => pair_overlaps(pairs[i])

\* C9 (amended): for every accepted range pair a-b,c-d with a <= b and
\* c <= d, contains() implies overlaps().
C9_OrderedContainsImpliesOverlaps ==
    \A i \in 1..Len(pairs) :
        (Ordered(pairs[i]) /\ pair_contains(pairs[i])) => pair_overlaps(pairs[i])

C9_Witness ==
    /\ pc04 = "done"
    /\ answer04 = Some(1)
    /\ pairs = <<<<<<2, 2>>, <<1, 3>>>>>>

(***************************************************************************)
(*                               DAY 01                                    *)
(***************************************************************************)
MaxLines01 == 3

\* the lines of the inputs: two numbers, the blank line and a word
Lines01 == {"1000", "2000", "", "x"}
\* str::parse::<u32>
parse_u32(line) ==
    CASE line = "1000" -> Some(1000)
      [] line = "2000" -> Some(2000)
      [] OTHER -> None
Inputs01 == SeqsUpTo(Lines01, MaxLines01)

RECURSIVE split_sums(_, _)
\* lines.split(|line| line.is_err()) with each piece summed: the sum of the
\* piece being read is `acc`; the end of the lines closes the last piece
split_sums(lines, acc) ==
    IF lines = <<>> THEN <<acc>>
    ELSE IF parse_u32(Head(lines)) = None THEN <<acc>> \o split_sums(Tail(lines), 0)
    ELSE split_sums(Tail(lines), acc + parse_u32(Head(lines))[1])

get_elves_without_empty(lines) ==
    LET all == split_sums(lines, 0)
        RECURSIVE keep(_)
        keep(q) == IF q = <<>> THEN <<>>
                   ELSE IF Head(q) = 0 THEN keep(Tail(q)) ELSE <<Head(q)>> \o keep(Tail(q))
    IN keep(all)
get_elves(lines) == split_sums(lines, 0)

RECURSIVE sort_descending(_)
\* sort_unstable followed by reverse
sort_descending(q) ==
    IF q = <<>> THEN <<>>
    ELSE LET at == CHOOSE i \in 1..Len(q) : \A j \in 1..Len(q) : q[j] <= q[i]
         IN <<q[at]>> \o sort_descending(SubSeq(q, 1, at - 1) \o SubSeq(q, at + 1, Len(q)))

Start01 ==
    /\ pc01 = "elves"
    /\ part01 \in {1, 2}
    /\ input01 \in Inputs01
    /\ elves = <<>>
    /\ answer01 = None

GetElves ==
    /\ pc01 = "elves"
    /\ elves' = get_elves(input01)
    /\ pc01' = "answer"
    /\ UNCHANGED <<part01, input01, answer01, build, other01>>

\* get_elves(input).iter().max().map(|x| x.0)
PartOneMax ==
    /\ pc01 = "answer"
    /\ part01 = 1
    /\ answer01' = max_of(elves)
    /\ pc01' = "done"
    /\ UNCHANGED <<part01, input01, elves, build, other01>>

\* sort, None below three elves, else the sum of the three largest
PartTwoTopThree ==
    /\ pc01 = "answer"
    /\ part01 = 2
    /\ elves' = sort_descending(elves)
    /\ answer01' = IF Len(elves) < 3 THEN None ELSE Some(SumSeq(SubSeq(elves', 1, 3)))
    /\ pc01' = "done"
    /\ UNCHANGED <<part01, input01, build, other01>>

Init01 == build = "release" /\ Start01 /\ Idle05 /\ Idle08 /\ Idle07 /\ Idle02 /\ Idle04 /\ Idle06 /\ Idle03 /\ Idle05f
Next01 == GetElves \/ PartOneMax \/ PartTwoTopThree
Spec01 == Init01 /\ [][Next01]_vars

(* ------------------------- properties, day 01 ------------------------- *)
IsInteger01(line) == line \in {"1000", "2000"}
ValueOf01 == [l \in {"1000", "2000"} |-> IF l = "1000" THEN 1000 ELSE 2000]
\* a group is a maximal run of integer lines; a run is lines i..j, all integers
Runs01 == {r \in (1..Len(input01)) \X (1..Len(input01)) :
              r[1] <= r[2] /\ \A k \in r[1]..r[2] : IsInteger01(input01[k])}
RunTotal01(r) == SumSeq([k \in 1..(r[2] - r[1] + 1) |-> ValueOf01[input01[r[1] + k - 1]]])
HasGroup01 == Runs01 # {}
\* the largest total of a run is the total of the largest group
MaxGroupTotal01 == CHOOSE m \in {RunTotal01(r) : r \in Runs01} : \A r \in Runs01 : RunTotal01(r) <= m

\* C10 (as claimed): part_one returns the maximum group total when the input
\* has a group, and no answer when it has none, as for the empty input.
C10_NoGroupsNoAnswer ==
    (part01 = 1 /\ pc01 = "done")
        => answer01 = IF HasGroup01 THEN Some(MaxGroupTotal01) ELSE None

\* C10 (amended): part_one returns the maximum group total when the input
\* has a group, and Some(0) when it has none: it never returns no answer.
C10_NoGroupsZero ==
    (part01 = 1 /\ pc01 = "done")
        => answer01 = IF HasGroup01 THEN Some(MaxGroupTotal01) ELSE Some(0)

C10_Witness ==
    /\ part01 = 1 /\ pc01 = "done"
    /\ input01 = <<>>
    /\ elves = <<0>>
    /\ answer01 = Some(0)

(***************************************************************************)
(*                               DAY 06                                    *)
(***************************************************************************)
MaxLen06 == 6
MaxLong06 == 16
PartOneSize == 4
PartTwoSize == 14

Alphabet06 == <<"a", "b", "c", "d", "e", "f", "g", "h", "i", "j", "k", "l", "m", "n", "o">>
\* every input of at most MaxLen06 characters over four letters
ShortInputs06 == SeqsUpTo({"a", "b", "c", "d"}, MaxLen06)
\* r times "a", then the first p letters of the alphabet over and over
Periodic06(r, p, len) ==
    [i \in 1..len |-> IF i <= r THEN "a" ELSE Alphabet06[((i - r - 1) % p) + 1]]
\* inputs long enough for a window of fourteen
LongInputs06 == {Periodic06(r, p, len) : r \in 0..2, p \in 13..15, len \in 0..MaxLong06}
Inputs06 == ShortInputs06 \cup LongInputs06

RECURSIVE is_marker_from(_, _, _)
\* the loop of is_marker from the i-th character on, `seen` being the set
is_marker_from(chars, i, seen) ==
    IF i > Len(chars) THEN TRUE
    ELSE IF chars[i] \in seen THEN FALSE
    ELSE is_marker_from(chars, i + 1, seen \cup {chars[i]})

is_marker_of_neighbours(chars) == \A i \in 1..(Len(chars) - 1) : chars[i] # chars[i + 1]
is_marker(chars) == is_marker_from(chars, 1, {})

\* find_window(input, 4) in part_one, find_window(input, 14) in part_two
window_size(part) == IF part = 1 THEN PartOneSize ELSE PartTwoSize
\* slice::windows(size): the window of index `result`, None past the last one
window(chars, sz, result) ==
    IF result + sz > Len(chars) THEN None
    ELSE Some(SubSeq(chars, result + 1, result + sz))

Start06 ==
    /\ pc06 = "scan"
    /\ part06 \in {1, 2}
    /\ input06 \in Inputs06
    /\ result06 = 0
    /\ answer06 = None

\* position(): the window is no marker, the next one is tested
NextWindow ==
    /\ pc06 = "scan"
    /\ window(input06, window_size(part06), result06) # None
    /\ ~is_marker(window(input06, window_size(part06), result06)[1])
    /\ result06' = result06 + 1
    /\ UNCHANGED <<pc06, part06, input06, answer06, build, other06>>

\* position() returns Some(result): the answer is (result + size) as u32,
\* a cast that keeps every value below 2^32
FoundWindow ==
    /\ pc06 = "scan"
    /\ window(input06, window_size(part06), result06) # None
    /\ is_marker(window(input06, window_size(part06), result06)[1])
    /\ answer06' = Some(result06 + window_size(part06))
    /\ pc06' = "done"
    /\ UNCHANGED <<part06, input06, result06, build, other06>>

\* position() returns None: the windows are exhausted
NoWindow ==
    /\ pc06 = "scan"
    /\ window(input06, window_size(part06), result06) = None
    /\ answer06' = None
    /\ pc06' = "done"
    /\ UNCHANGED <<part06, input06, result06, build, other06>>

Init06 == build = "release" /\ Start06 /\ Idle05 /\ Idle08 /\ Idle07 /\ Idle02 /\ Idle04 /\ Idle01 /\ Idle03 /\ Idle05f
Next06 == NextWindow \/ FoundWindow \/ NoWindow
Spec06 == Init06 /\ [][Next06]_vars

(* ------------------------- properties, day 06 ------------------------- *)
\* the 1-based positions i whose preceding k characters, i included, are
\* pairwise distinct
DistinctEnds06(chars, k) ==
    {i \in k..Len(chars) :
        \A a, b \in (i - k + 1)..i : a # b => chars[a] # chars[b]}

\* C12: with k = 4 (part one) or 14 (part two), find_window returns the
\* smallest i such that characters i-k+1..i are pairwise distinct, and no
\* answer exactly when there is no such window, as when the input is
\* shorter than k.
C12_SmallestDistinctWindow ==
    pc06 = "done" =>
        LET ends == DistinctEnds06(input06, window_size(part06))
        IN /\ ends # {} => /\ answer06 # None
                           /\ answer06[1] \in ends
                           /\ \A i \in ends : answer06[1] <= i
           /\ ends = {} => answer06 = None

\* part two: two leading "a", then fourteen distinct letters
C12_Witness ==
    /\ pc06 = "done"
    /\ part06 = 2
    /\ Len(input06) = 16
    /\ input06[1] = "a" /\ input06[2] = "a" /\ input06[3] = "a" /\ input06[16] = "n"
    /\ answer06 = Some(16)

(***************************************************************************)
(*                               DAY 03                                    *)
(***************************************************************************)
MaxLines03 == 6

LowerCase == <<"a", "b", "c", "d", "e", "f", "g", "h", "i", "j", "k", "l", "m",
               "n", "o", "p", "q", "r", "s", "t", "u", "v", "w", "x", "y", "z">>
UpperCase == <<"A", "B", "C", "D", "E", "F", "G", "H", "I", "J", "K", "L", "M",
               "N", "O", "P", "Q", "R", "S", "T", "U", "V", "W", "X", "Y", "Z">>
IndexIn(q, c) == CHOOSE i \in 1..Len(q) : q[i] = c
Elems(q) == {q[i] : i \in 1..Len(q)}

\* char::is_ascii_alphabetic
is_ascii_alphabetic(c) == c \in Elems(LowerCase) \cup Elems(UpperCase)

priority_uppercase_first(item) ==
    IF item \in Elems(UpperCase) THEN IndexIn(UpperCase, item) - 1 + 1
    ELSE IndexIn(LowerCase, item) - 1 + 27
\* Item::priority: c - 'a' + 1 for 'a'..='z', c - 'A' + 27 for 'A'..='Z'
priority(item) ==
    IF item \in Elems(LowerCase) THEN IndexIn(LowerCase, item) - 1 + 1
    ELSE IndexIn(UpperCase, item) - 1 + 27

\* the lines of the inputs: letters in even and in odd number, the empty
\* line, and a line with a character that is no letter
Lines03 ==
    { <<"a", "B">>, <<"a", "c">>, <<"B", "c">>, <<"a", "c", "B", "a">>, <<>>,
      <<"a">>, <<"a", "B", "c">>, <<"a", "-">> }

\* Backpack::from_str: <<"Ok", backpack>> or <<error>>, a backpack being the
\* pair of the sets of items of its two compartments
backpack_from_str(line) ==
    IF \E i \in 1..Len(line) : ~is_ascii_alphabetic(line[i]) THEN <<"BadCharacter">>
    ELSE IF Len(line) % 2 # 0 THEN <<"WrongSizes">>
    ELSE <<"Ok", <<Elems(SubSeq(line, 1, Len(line) \div 2)),
                   Elems(SubSeq(line, Len(line) \div 2 + 1, Len(line)))>> >>

\* the set shared_item() takes its item from
shared_items(backpack) == backpack[1] \cap backpack[2]

\* slice::chunks(3): the number of chunks, the last one may be shorter
num_chunks(n) == (n + 2) \div 3
chunk(q, k) == SubSeq(q, 3 * (k - 1) + 1, IF 3 * k < Len(q) THEN 3 * k ELSE Len(q))

\* the `intersection` of part_two for one chunk: the items of the first
\* backpack retained by every other backpack of the chunk
chunk_intersection(ch) ==
    {e \in ch[1][1] \cup ch[1][2] : \A i \in 2..Len(ch) : e \in ch[i][1] \cup ch[i][2]}

Start03 ==
    /\ pc03 = "parse"
    /\ part03 \in {1, 2}
    /\ lines03 = <<>>
    /\ backpacks = <<>>
    /\ answer03 = None

\* the next line is parsed; an error ends the part with None
ParseBackpack ==
    /\ pc03 = "parse"
    /\ Len(lines03) < MaxLines03
    /\ \E line \in Lines03 :
          LET r == backpack_from_str(line)
          IN /\ lines03' = Append(lines03, line)
             /\ IF r[1] = "Ok"
                THEN backpacks' = Append(backpacks, r[2]) /\ UNCHANGED <<pc03, answer03>>
                ELSE pc03' = "done" /\ answer03' = None /\ UNCHANGED backpacks
    /\ UNCHANGED <<part03, build, other03>>

\* collect::<Option<Vec<_>>>() returns Some(backpacks): no further line
BackpacksParsed ==
    /\ pc03 = "parse"
    /\ pc03' = "score"
    /\ UNCHANGED <<part03, lines03, backpacks, answer03, build, other03>>

\* part_one: the sum of the scores, None when a backpack shares no item;
\* a HashSet yields any one of the shared items first
PartOneScores ==
    /\ pc03 = "score"
    /\ part03 = 1
    /\ IF \E i \in 1..Len(backpacks) : shared_items(backpacks[i]) = {}
       THEN answer03' = None
       ELSE \E items \in [1..Len(backpacks) ->
                                UNION {shared_items(backpacks[i]) : i \in 1..Len(backpacks)}] :
               /\ \A i \in 1..Len(backpacks) : items[i] \in shared_items(backpacks[i])
               /\ answer03' = Some(SumSeq([i \in 1..Len(backpacks) |-> priority(items[i])]))
    /\ pc03' = "done"
    /\ UNCHANGED <<part03, lines03, backpacks, build, other03>>

\* part_two: per chunk of three the priority of an item of the intersection,
\* None when a chunk has none; a HashSet yields any one of its items first
PartTwoBadges ==
    /\ pc03 = "score"
    /\ part03 = 2
    /\ LET n == num_chunks(Len(backpacks))
       IN IF \E k \in 1..n : chunk_intersection(chunk(backpacks, k)) = {}
          THEN answer03' = None
          ELSE \E items \in [1..n ->
                                   UNION {chunk_intersection(chunk(backpacks, k)) : k \in 1..n}] :
                  /\ \A k \in 1..n : items[k] \in chunk_intersection(chunk(backpacks, k))
                  /\ answer03' = Some(SumSeq([k \in 1..n |-> priority(items[k])]))
    /\ pc03' = "done"
    /\ UNCHANGED <<part03, lines03, backpacks, build, other03>>

Init03 == build = "release" /\ Start03 /\ Idle05 /\ Idle08 /\ Idle07 /\ Idle02 /\ Idle04 /\ Idle01 /\ Idle06 /\ Idle05f
Next03 == ParseBackpack \/ BackpacksParsed \/ PartOneScores \/ PartTwoBadges
Spec03 == Init03 /\ [][Next03]_vars

(* ------------------------- properties, day 03 ------------------------- *)
Letters03 == {"a", "B", "c"}
LetterPriority == [a |-> 1, B |-> 28, c |-> 3]
\* the letters common to the three whole lines of group g
CommonLetters(g) ==
    {l \in Letters03 : \A i \in (3 * g - 2)..(3 * g) : l \in Elems(lines03[i])}
\* lines of ASCII letters, their number a multiple of three, every group of
\* three with exactly one letter common to all three
GroupedInput03 ==
    /\ \A i \in 1..Len(lines03) : Elems(lines03[i]) \subseteq Letters03
    /\ Len(lines03) % 3 = 0
    /\ \A g \in 1..(Len(lines03) \div 3) : Cardinality(CommonLetters(g)) = 1
BadgeSum03 ==
    SumSeq([g \in 1..(Len(lines03) \div 3) |->
               LetterPriority[CHOOSE l \in Letters03 : l \in CommonLetters(g)]])
EvenLines03 == \A i \in 1..Len(lines03) : Len(lines03[i]) % 2 = 0
Returned03 == part03 = 2 /\ pc03 = "done"

\* C15 (as claimed): on an input of lines of ASCII letters, a multiple of
\* three in number, every group of three with exactly one common letter,
\* part_two returns the sum of the priorities of the common letters,
\* whatever the lengths of the lines.
C15_BadgeSumAnyLength ==
    (Returned03 /\ GroupedInput03) => answer03 = Some(BadgeSum03)

\* C15 (amended): it does so when every line has an even number of letters,
\* and returns no answer when a line has an odd number of them.
C15_BadgeSumEvenLines ==
    (Returned03 /\ GroupedInput03)
        => answer03 = IF EvenLines03 THEN Some(BadgeSum03) ELSE None

\* two groups: common letter a, then common letter B
C15_Witness ==
    /\ Returned03
    /\ lines03 = << <<"a", "B">>, <<"a", "c">>, <<"a", "c", "B", "a">>,
                    <<"B", "c">>, <<"a", "B">>, <<"a", "c", "B", "a">> >>
    /\ answer03 = Some(29)

(***************************************************************************)
(*                  DAY 05, CrateCollection::from_str                      *)
(***************************************************************************)
MaxColumns == 2
MaxRows == 2

\* the number line as split_whitespace() yields it
NumberLines == {<<>>, <<"1">>, <<"1", "2">>, <<"2">>, <<"x">>}
\* str::parse::<usize> of a word of the number line
parse_stack_number(w) ==
    CASE w = "1" -> Some(1)
      [] w = "2" -> Some(2)
      [] w = "3" -> Some(3)
      [] OTHER -> None

\* chars.chunks(4): every chunk but the last of a line has four characters
FullChunks ==
    { <<"[", "A", "]", " ">>, <<"[", "B", "]", " ">>, <<" ", " ", " ", " ">>,
      <<"[", "A", "]", "]">> }
ShortChunks == { <<"[", "A", "]">>, <<"[", "B", "]">>, <<" ", " ", " ">>, <<"A">>, <<"[", "]">> }
\* a crate line is the sequence of its chunks; the empty line has none
CrateLines ==
    {<<>>} \cup
    UNION {{Append(front, last) : front \in [1..n -> FullChunks],
                                  last \in FullChunks \cup ShortChunks} :
              n \in 0..(MaxColumns - 1)}
\* a text: its crate lines from top to bottom and its number line; the
\* empty text has no number line
Pictures ==
    {[rows |-> r, numbers |-> Some(n)] : r \in SeqsUpTo(CrateLines, MaxRows), n \in NumberLines}
        \cup {[rows |-> <<>>, numbers |-> None]}

\* char::is_whitespace
is_whitespace(c) == c = " "

\* Crate::from_str: <<"Ok", crate>> or <<error>>
crate_from_str(str) ==
    IF str = <<>> \/ str[1] # "[" THEN <<"BadCharacter">>
    ELSE IF Tail(str) = <<>> \/ str[Len(str)] # "]" THEN <<"BadCharacter">>
    ELSE LET inner == SubSeq(str, 2, Len(str) - 1)
         IN IF Len(inner) # 1 THEN <<"BadLength">> ELSE <<"Ok", inner[1]>>

\* the number line: the number of stacks, or the first error
parse_number_line(words) ==
    LET bad == {n \in 1..Len(words) :
                   \/ parse_stack_number(words[n]) = None
                   \/ parse_stack_number(words[n])[1] # n}
        first == CHOOSE n \in bad : \A k \in bad : n <= k
    IN IF bad = {} THEN <<"Ok", Len(words)>>
       ELSE IF parse_stack_number(words[first]) = None THEN <<"BadNumberParse">>
       ELSE <<"BadNumberSequence">>

\* the closure of chunks(4).enumerate().map(..) for one chunk; an index past
\* the last stack panics
parse_chunk(str, stack_num, st) ==
    LET num_stacks == Len(st.stacks)
        body == IF Len(str) = 4 THEN SubSeq(str, 1, 3) ELSE str
    IN IF stack_num > num_stacks THEN [st EXCEPT !.result = "BadFormat"]
       ELSE IF Len(str) = 4 /\ ~is_whitespace(str[4]) THEN [st EXCEPT !.result = "BadFormat"]
       ELSE IF \E i \in 1..Len(body) : ~is_whitespace(body[i])
       THEN IF crate_from_str(body)[1] # "Ok" THEN [st EXCEPT !.result = "BadCrate"]
            ELSE IF stack_num >= num_stacks THEN [st EXCEPT !.result = "panic"]
            ELSE IF st.ended[stack_num + 1] THEN [st EXCEPT !.result = "BadStacking"]
            ELSE [st EXCEPT !.stacks[stack_num + 1] = push(@, crate_from_str(body)[2])]
       ELSE IF stack_num >= num_stacks THEN [st EXCEPT !.result = "panic"]
            ELSE [st EXCEPT !.ended[stack_num + 1] = TRUE]

RECURSIVE parse_line(_, _, _)
\* the chunks of one line from stack_num on, up to the first error
parse_line(chunks, stack_num, st) ==
    IF stack_num >= Len(chunks) \/ st.result # "Ok" THEN st
    ELSE parse_line(chunks, stack_num + 1, parse_chunk(chunks[stack_num + 1], stack_num, st))

Start05f ==
    /\ pc05f = "numbers"
    /\ picture \in Pictures
    /\ nlines = 0
    /\ stacks05 = <<>>
    /\ stack_ended = <<>>
    /\ parsed = "none"

\* lines.next().ok_or(BadFormat)?, then the number of stacks
ReadNumberLine ==
    /\ pc05f = "numbers"
    /\ IF picture.numbers = None
       THEN parsed' = "BadFormat" /\ pc05f' = "done" /\ UNCHANGED <<stacks05, stack_ended>>
       ELSE LET r == parse_number_line(picture.numbers[1])
            IN IF r[1] # "Ok"
               THEN parsed' = r[1] /\ pc05f' = "done" /\ UNCHANGED <<stacks05, stack_ended>>
               ELSE /\ stacks05' = [i \in 1..r[2] |-> <<>>]
                    /\ stack_ended' = [i \in 1..r[2] |-> FALSE]
                    /\ pc05f' = "lines"
                    /\ parsed' = parsed
    /\ UNCHANGED <<picture, nlines, build, other05f>>

\* one iteration of `for line in lines`, the lines taken from the bottom
ReadCrateLine ==
    /\ pc05f = "lines"
    /\ nlines < Len(picture.rows)
    /\ LET line == picture.rows[Len(picture.rows) - nlines]
           r == parse_line(line, 0, [result |-> "Ok", stacks |-> stacks05, ended |-> stack_ended])
       IN IF r.result = "Ok"
          THEN /\ stacks05' = r.stacks
               /\ stack_ended' = r.ended
               /\ nlines' = nlines + 1
               /\ UNCHANGED <<pc05f, parsed>>
          ELSE /\ parsed' = r.result
               /\ pc05f' = "done"
               /\ UNCHANGED <<stacks05, stack_ended, nlines>>
    /\ UNCHANGED <<picture, build, other05f>>

\* Ok(Self(stacks))
ReturnStacks ==
    /\ pc05f = "lines"
    /\ nlines = Len(picture.rows)
    /\ parsed' = "Ok"
    /\ pc05f' = "done"
    /\ UNCHANGED <<picture, nlines, stacks05, stack_ended, build, other05f>>

Init05f == build = "release" /\ Start05f /\ Idle05 /\ Idle08 /\ Idle07 /\ Idle02 /\ Idle04 /\ Idle01 /\ Idle06 /\ Idle03
Next05f == ReadNumberLine \/ ReadCrateLine \/ ReturnStacks
Spec05f == Init05f /\ [][Next05f]_vars

(* -------------------- properties, the parser of day 05 ---------------- *)
\* the i-th crate line counted from the bottom
RowFromBottom(i) == picture.rows[Len(picture.rows) + 1 - i]
\* the line has a crate written in column s; a line too short for the
\* column, like blanks in it, has none
CrateInColumn(line, s) ==
    /\ s <= Len(line)
    /\ \E k \in 1..Len(line[s]) : k <= 3 /\ ~is_whitespace(line[s][k])
\* a crate above an empty position of its stack
FloatingCrate ==
    \E s \in 1..MaxColumns : \E i, j \in 1..Len(picture.rows) :
        /\ i < j
        /\ ~CrateInColumn(RowFromBottom(i), s)
        /\ CrateInColumn(RowFromBottom(j), s)

\* C17: a crate in a stack above a line where the stack's column was empty,
\* written as blanks or absent because the line is short, makes from_str
\* fail; no accepted picture has a crate above an empty position.
C17_NoFloatingCrateAccepted == (pc05f = "done" /\ FloatingCrate) => parsed # "Ok"

=============================================================================
